---------------------------- MODULE Spec2Model ----------------------------
(***************************************************************************)
(* A model of git-tui (src/src/main.rs): the graph-line parser, the branch  *)
(* and descendant-cache engine and the key handlers of the session.        *)
(*                                                                         *)
(* Text.  A Rust String is UTF-8: `line.chars().enumerate()` counts chars, *)
(* `&line[i..]` and `str::len` count bytes.  A string is modelled as a     *)
(* sequence of characters; a character is a one-letter TLA+ string, except *)
(* "U2", "U3", "U4", which stand for one non-ASCII character of 2, 3 and 4 *)
(* bytes (for instance e-acute, the euro sign, an emoji).                   *)
(***************************************************************************)
EXTENDS Naturals, Integers, Sequences, FiniteSets, TLC

VARIABLES
    \* ---- struct App (the two ListStates mirror selected_branch and
    \* selected_commit and are left out)
    branches,               \* Vec<GitBranch>
    commits,                \* HashMap<String, GitCommit>, keyed by full id
    graph_lines,            \* Vec<GraphLine>
    selected_branch,        \* usize, 0-based
    selected_commit,        \* usize, 0-based
    show_logs,              \* bool: the graph panel has the focus
    current_branch_filter,  \* Option<String>
    loading,                \* bool
    error_message,          \* Option<String>
    scroll_offset,          \* u16: the scroll of the commit details
    current_diff,           \* Option<String>, by its number of lines
    show_diff,              \* bool
    diff_scroll_offset,     \* u16
    descendant_cache,       \* HashMap<String, Vec<String>>
    branch_commit_cache,    \* HashMap<String, String>
    \* ---- the process
    status,                 \* "running", "quit" (run_app returned), "panicked"
    \* ---- what the last handler did at the process boundary
    anc_calls,              \* the git merge-base runs it made
    cache_hit,              \* its load_graph took the descendants from the cache
    git_log_args,           \* the revision arguments of its git log, if any
    git_log_result,         \* what that git log answered, NoFetch if none ran
    reloaded,               \* whether the last step ran load_branches
    \* ---- harness of the specifications that check a pure function
    arg,                    \* the input the function is applied to
    ret                     \* its result, NotRun before the call

appvars ==
    <<branches, commits, graph_lines, selected_branch, selected_commit,
      show_logs, current_branch_filter, loading, error_message, scroll_offset,
      current_diff, show_diff, diff_scroll_offset, descendant_cache,
      branch_commit_cache, status, anc_calls, cache_hit, git_log_args,
      git_log_result,
      reloaded>>

pvars == <<arg, ret>>

vars == <<appvars, pvars>>

\* Option<T>
None == <<>>
Some(x) == <<x>>

\* the outcome of a call: a value, or a panic (the thread unwinds)
Ok(v) == [panic |-> FALSE, value |-> v]
Panicked == [panic |-> TRUE, value |-> <<>>]

\* the harness's ret before and after the call
NotRun == <<>>
Returned(outcome) == <<outcome>>

\* no git log was run
NoFetch == [kind |-> "not_run", lines |-> <<>>]

\* the fields of App { .. } in App::new, before anything is loaded; the
\* specifications of a single function leave the session there
NoSession ==
    /\ branches = <<>>
    /\ commits = <<>>
    /\ graph_lines = <<>>
    /\ selected_branch = 0
    /\ selected_commit = 0
    /\ show_logs = FALSE
    /\ current_branch_filter = None
    /\ loading = FALSE
    /\ error_message = None
    /\ scroll_offset = 0
    /\ current_diff = None
    /\ show_diff = FALSE
    /\ diff_scroll_offset = 0
    /\ descendant_cache = <<>>
    /\ branch_commit_cache = <<>>
    /\ status = "running"
    /\ anc_calls = 0
    /\ cache_hit = FALSE
    /\ git_log_args = <<>>
    /\ git_log_result = NoFetch
    /\ reloaded = FALSE

-----------------------------------------------------------------------------
(* Characters and strings *)

\* char::is_ascii_hexdigit
HexDigits ==
    {"0", "1", "2", "3", "4", "5", "6", "7", "8", "9",
     "a", "b", "c", "d", "e", "f", "A", "B", "C", "D", "E", "F"}

is_ascii_hexdigit(c) == c \in HexDigits

\* char::len_utf8
len_utf8(c) ==
    IF c = "U2" THEN 2 ELSE IF c = "U3" THEN 3 ELSE IF c = "U4" THEN 4 ELSE 1

\* the byte offset of the char after the first k chars of s
RECURSIVE ByteOffset(_, _)
ByteOffset(s, k) ==
    IF k = 0 THEN 0 ELSE ByteOffset(s, k - 1) + len_utf8(s[k])

\* str::len: the length in bytes
ByteLen(s) == ByteOffset(s, Len(s))

\* str::is_char_boundary(b)
is_char_boundary(s, b) == \E k \in 0..Len(s) : ByteOffset(s, k) = b

\* &s[b..]: the string from byte offset b on, b a char boundary (the slice
\* panics when it is not)
SliceFrom(s, b) ==
    LET k == CHOOSE k \in 0..Len(s) : ByteOffset(s, k) = b
    IN  SubSeq(s, k + 1, Len(s))

\* str::find(' '): the 1-based index of the first space, 0 when there is none
FindSpace(s) ==
    IF \E j \in 1..Len(s) : s[j] = " "
    THEN CHOOSE j \in 1..Len(s) : s[j] = " " /\ \A h \in 1..(j - 1) : s[h] # " "
    ELSE 0

\* char::is_whitespace, on the characters the model uses
is_whitespace(c) == c \in {" ", "\t"}

\* str::trim().is_empty()
IsBlank(s) == \A j \in 1..Len(s) : is_whitespace(s[j])

-----------------------------------------------------------------------------
(* App::parse_gn_format_line *)

MinHashLen == 7

GraphLine(g, c, id) ==
    [graph_text |-> g, commit_text |-> c, commit_id |-> id, refs_text |-> <<>>]

\* LooksLikeHash without its test of the characters
LooksLikeHash_LengthOnly(potential_hash) ==
    ByteLen(potential_hash) >= MinHashLen

\* the test on potential_hash: 7+ bytes, every char a hex digit or '*'
LooksLikeHash(potential_hash) ==
    /\ ByteLen(potential_hash) >= MinHashLen
    /\ \A j \in 1..Len(potential_hash) :
          is_ascii_hexdigit(potential_hash[j]) \/ potential_hash[j] = "*"

\* &remaining[..space_pos]
PotentialHash(remaining) == SubSeq(remaining, 1, FindSpace(remaining) - 1)

\* the loop of parse_gn_format_line from the n-th char on (n is 1-based, the
\* code's i is n - 1); graph_part holds the chars before it
RECURSIVE ScanLine(_, _)
ScanLine(line, n) ==
    IF n > Len(line)
    THEN Ok(GraphLine(line, <<>>, <<>>))                  \* no commit found
    ELSE
      LET ch == line[n] IN
      IF ch = "*" \/ is_ascii_hexdigit(ch)
      THEN IF ~is_char_boundary(line, n - 1) THEN Panicked
           ELSE LET remaining == SliceFrom(line, n - 1)
                    potential_hash == PotentialHash(remaining)
                IN  IF FindSpace(remaining) # 0 /\ LooksLikeHash(potential_hash)
                    THEN Ok(GraphLine(SubSeq(line, 1, n - 1), remaining,
                                      IF is_ascii_hexdigit(ch)
                                      THEN potential_hash ELSE <<>>))
                    ELSE ScanLine(line, n + 1)
      ELSE ScanLine(line, n + 1)

parse_gn_format_line(line) == ScanLine(line, 1)

-----------------------------------------------------------------------------
(* The lines the parser is checked on: a prefix, a run of hex digits and    *)
(* markers, a suffix.                                                       *)

MaxPrefix == 2
MaxRun == 7
MaxSuffix == 2

PrefixChars == {" ", "|", "a", "U2"}
SuffixChars == {" ", "|", "a"}

RECURSIVE SeqsUpTo(_, _)
SeqsUpTo(S, n) ==
    IF n = 0 THEN {<<>>}
    ELSE LET shorter == SeqsUpTo(S, n - 1)
         IN  shorter \cup {Append(s, c) : s \in shorter, c \in S}

RECURSIVE Rep(_, _)
Rep(c, n) == IF n = 0 THEN <<>> ELSE Append(Rep(c, n - 1), c)

Runs ==
    {<<>>} \cup
    {<<lead>> \o Rep("a", k) \o tail :
        lead \in {"a", "*"}, k \in 0..MaxRun, tail \in {<<>>, <<"*">>}}

ParseInputs ==
    {p \o r \o s : p \in SeqsUpTo(PrefixChars, MaxPrefix), r \in Runs,
                   s \in SeqsUpTo(SuffixChars, MaxSuffix)}

ParseInit ==
    /\ arg \in ParseInputs
    /\ ret = NotRun
    /\ NoSession

ParseLine ==
    /\ ret = NotRun
    /\ ret' = Returned(parse_gn_format_line(arg))
    /\ UNCHANGED <<arg, appvars>>

ParseNext == ParseLine

SpecParse == ParseInit /\ [][ParseNext]_vars

-----------------------------------------------------------------------------
(* The repository the session reads.  Commit c of 1..NumCommits has parent *)
(* c - 1: `git merge-base --is-ancestor a d` succeeds exactly when a <= d   *)
(* (a commit is its own ancestor).  A branch record holds the commit's      *)
(* number for its 40-digit id.                                              *)

NumCommits == 2

Commits == 1..NumCommits

IsAncestor(a, d) == a <= d

\* refs/heads/* and refs/remotes/*, by Branch::name(): the local branch
\* refs/heads/origin/dev and the remote branch refs/remotes/origin/dev have
\* the same name, "origin/dev"
LocalNames == <<"dev", "master", "origin/dev">>
RemoteNames == <<"origin/dev">>

\* a state of the repository's branches: the tip of each, 0 when the branch
\* does not exist
AllRepoStates ==
    [local : [1..Len(LocalNames) -> 0..NumCommits],
     remote : [1..Len(RemoteNames) -> 0..NumCommits]]

\* struct GitBranch
GitBranch(name, commit_id, is_remote) ==
    [name |-> name, commit_id |-> commit_id,
     is_head |-> (~is_remote /\ name = "master"), is_remote |-> is_remote]

\* the branches of one kind that exist, in the order the repository lists them
RECURSIVE ListBranches(_, _, _, _)
ListBranches(names, tips, is_remote, n) ==
    IF n > Len(names) THEN <<>>
    ELSE (IF tips[n] = 0 THEN <<>>
          ELSE <<GitBranch(names[n], tips[n], is_remote)>>)
         \o ListBranches(names, tips, is_remote, n + 1)

\* what a complete load_branches pushes: the local branches, then the remote
AllBranches(r) ==
    ListBranches(LocalNames, r.local, FALSE, 1)
        \o ListBranches(RemoteNames, r.remote, TRUE, 1)

\* branch_commit_cache after the pushes of `brs`: insert(name, commit_id) in
\* list order, so a later branch of the same name overwrites an earlier one
BranchCommitCache(brs) ==
    [name \in {brs[i].name : i \in 1..Len(brs)} |->
        LET last == CHOOSE i \in 1..Len(brs) :
                        /\ brs[i].name = name
                        /\ \A j \in (i + 1)..Len(brs) : brs[j].name # name
        IN  brs[last].commit_id]

-----------------------------------------------------------------------------
(* App::is_ancestor_fast and App::compute_descendants_fast *)

\* a failed run of git counted as "is an ancestor"
is_ancestor_fast_FailureIsYes(ancestor_commit, descendant_commit, fails) ==
    fails \/ IsAncestor(ancestor_commit, descendant_commit)

\* is_ancestor_fast: Ok(status.success()), and Ok(false) when git cannot be
\* run; `fails` says that this run of git fails
is_ancestor_fast(ancestor_commit, descendant_commit, fails) ==
    ~fails /\ IsAncestor(ancestor_commit, descendant_commit)

\* the branches the loop of compute_descendants_fast runs the check for
Candidates(brs, bcc, base_branch) ==
    SelectSeq(brs, LAMBDA b : /\ ~(b.name = base_branch \/ b.is_remote)
                              /\ b.name \in DOMAIN bcc)

BranchNamesOf(brs) == [i \in 1..Len(brs) |-> brs[i].name]

\* compute_descendants_fast(base_branch) on the branch list brs and the
\* branch_commit_cache bcc; failing: the candidates whose git run fails
compute_descendants_fast(brs, bcc, base_branch, failing) ==
    IF base_branch \notin DOMAIN bcc THEN <<>>
    ELSE BranchNamesOf(
            SelectSeq(Candidates(brs, bcc, base_branch),
                      LAMBDA b : is_ancestor_fast(bcc[base_branch], bcc[b.name],
                                                  b.name \in failing)))

\* the number of is_ancestor_fast calls of compute_descendants_fast
AncestryCalls(brs, bcc, base_branch) ==
    IF base_branch \notin DOMAIN bcc THEN 0
    ELSE Len(Candidates(brs, bcc, base_branch))

Range(f) == {f[x] : x \in DOMAIN f}

-----------------------------------------------------------------------------
(* compute_descendants_fast as a function of the branch list: SpecDesc      *)

DescInputs ==
    {[branches |-> AllBranches(r), base |-> i, failing |-> F] :
        r \in AllRepoStates, i \in 1..(Len(LocalNames) + Len(RemoteNames)),
        F \in SUBSET Range(LocalNames)}

DescInit ==
    /\ arg \in {a \in DescInputs : a.base <= Len(a.branches)}
    /\ ret = NotRun
    /\ NoSession

\* select_current_branch passes the name of the branch picked in the list
ComputeDescendants ==
    /\ ret = NotRun
    /\ ret' = Returned(Ok(compute_descendants_fast(
                    arg.branches, BranchCommitCache(arg.branches),
                    arg.branches[arg.base].name, arg.failing)))
    /\ UNCHANGED <<arg, appvars>>

DescNext == ComputeDescendants

SpecDesc == DescInit /\ [][DescNext]_vars

\* C3 (as claimed): with every ancestry check succeeding, the result names
\* exactly the local branches other than the base whose tip the base's tip is
\* an ancestor of, each once, and no remote branch.
C3_ExactlyLocalDescendants ==
    (ret # NotRun /\ arg.failing = {}) =>
        LET brs == arg.branches
            B == brs[arg.base]
            expected == {i \in 1..Len(brs) :
                            /\ i # arg.base
                            /\ ~brs[i].is_remote
                            /\ IsAncestor(B.commit_id, brs[i].commit_id)}
            got == ret[1].value
        IN  /\ Range(got) = {brs[i].name : i \in expected}
            /\ Len(got) = Cardinality(expected)

\* the same statement on branch lists in which no two branches share a name
NamesDistinct(brs) ==
    \A i, j \in 1..Len(brs) : brs[i].name = brs[j].name => i = j

C3_HoldsForDistinctNames == NamesDistinct(arg.branches) => C3_ExactlyLocalDescendants

-----------------------------------------------------------------------------
(* The commit index: the lookup load_graph makes for each parsed line *)

\* str::split_whitespace
RECURSIVE SplitFrom(_, _, _)
SplitFrom(s, n, word) ==
    IF n > Len(s) THEN (IF word = <<>> THEN <<>> ELSE <<word>>)
    ELSE IF is_whitespace(s[n])
         THEN (IF word = <<>> THEN <<>> ELSE <<word>>) \o SplitFrom(s, n + 1, <<>>)
         ELSE SplitFrom(s, n + 1, Append(word, s[n]))

split_whitespace(s) == SplitFrom(s, 1, <<>>)

\* p.len() >= 7 && p.chars().all(|c| c.is_ascii_hexdigit())
IsHexToken(p) ==
    /\ ByteLen(p) >= MinHashLen
    /\ \A j \in 1..Len(p) : is_ascii_hexdigit(p[j])

\* parts.iter().find(..): the first such token, <<>> when there is none
FirstHexToken(parts) ==
    IF \E j \in 1..Len(parts) : IsHexToken(parts[j])
    THEN parts[CHOOSE j \in 1..Len(parts) :
                  IsHexToken(parts[j]) /\ \A h \in 1..(j - 1) : ~IsHexToken(parts[h])]
    ELSE <<>>

\* the ids of the repository's commits: commit c is aaaaaa<c>0 (for 40 digits),
\* abbreviated by git to its first 7
IdDigits == <<"1", "2", "3", "4", "5", "6", "7", "8", "9">>
ShortId(c) == <<"a", "a", "a", "a", "a", "a", IdDigits[c]>>
FullId(c) == ShortId(c) \o <<"0">>

\* str::starts_with
starts_with(s, prefix) ==
    Len(prefix) <= Len(s) /\ SubSeq(s, 1, Len(prefix)) = prefix

\* find_commit_by_short_id followed by find_commit: the commits the name
\* resolves to (revparse_single, else the walk from HEAD matching by prefix)
ResolveShortId(short_id) == {c \in Commits : starts_with(FullId(c), short_id)}

\* struct GitCommit, by the fields the session reads back
GitCommit(c, commit_short, refs) ==
    [id |-> FullId(c), short_id |-> commit_short, refs |-> refs]

\* a commit filed under its abbreviated id
CommitKey_Short(c) == ShortId(c)

\* git_commit.id.clone(), the key of self.commits.insert
CommitKey(c) == FullId(c)

\* HashMap::insert
MapInsert(m, k, v) == [x \in DOMAIN m \cup {k} |-> IF x = k THEN v ELSE m[x]]

EmptyMap == <<>>

-----------------------------------------------------------------------------
(* App::extract_refs_from_line.  '(' , ')' and ',' are one byte each, so    *)
(* the byte offsets of find and rfind cut the line between characters.     *)

\* str::find(c): the 1-based position of the first c, 0 when there is none
FindChar(s, c) ==
    IF \E k \in 1..Len(s) : s[k] = c
    THEN CHOOSE k \in 1..Len(s) : s[k] = c /\ \A h \in 1..(k - 1) : s[h] # c
    ELSE 0

\* str::rfind(c): the 1-based position of the last c, 0 when there is none
RFindChar(s, c) ==
    IF \E k \in 1..Len(s) : s[k] = c
    THEN CHOOSE k \in 1..Len(s) : s[k] = c /\ \A h \in (k + 1)..Len(s) : s[h] # c
    ELSE 0

\* str::contains(c)
Contains(s, c) == \E k \in 1..Len(s) : s[k] = c

\* str::split(c): the pieces between the c's, the empty ones too
RECURSIVE SplitOnFrom(_, _, _, _)
SplitOnFrom(s, c, n, piece) ==
    IF n > Len(s) THEN <<piece>>
    ELSE IF s[n] = c THEN <<piece>> \o SplitOnFrom(s, c, n + 1, <<>>)
    ELSE SplitOnFrom(s, c, n + 1, Append(piece, s[n]))

SplitOn(s, c) == SplitOnFrom(s, c, 1, <<>>)

\* str::trim
RECURSIVE trim(_)
trim(s) ==
    IF s = <<>> THEN s
    ELSE IF is_whitespace(s[1]) THEN trim(Tail(s))
    ELSE IF is_whitespace(s[Len(s)]) THEN trim(SubSeq(s, 1, Len(s) - 1))
    ELSE s

OriginPrefix == <<"o", "r", "i", "g", "i", "n", "/">>

\* part.starts_with("origin/") || !part.contains('/')
KeepsRef(part) == starts_with(part, OriginPrefix) \/ ~Contains(part, "/")

\* the loop over refs_str.split(','): the trimmed parts that are kept
RECURSIVE PushRefs(_, _)
PushRefs(parts, n) ==
    IF n > Len(parts) THEN <<>>
    ELSE (IF KeepsRef(trim(parts[n])) THEN <<trim(parts[n])>> ELSE <<>>)
            \o PushRefs(parts, n + 1)

\* the whole line split at its commas, the parentheses ignored
extract_refs_from_line_WholeLine(line) == Ok(PushRefs(SplitOn(line, ","), 1))

\* extract_refs_from_line(line): &line[start+1..end] panics when the last ')'
\* comes before the first '('
extract_refs_from_line(line) ==
    LET start == FindChar(line, "(")
        end == RFindChar(line, ")")
    IN  IF start = 0 \/ end = 0 THEN Ok(<<>>)
        ELSE IF end < start THEN Panicked
        ELSE Ok(PushRefs(SplitOn(SubSeq(line, start + 1, end - 1), ","), 1))

-----------------------------------------------------------------------------
(* extract_refs_from_line as a function of the line: SpecRefs *)

MaxRefs == 3

HeadMain == <<"H", "E", "A", "D", " ", "-", ">", " ", "m", "a", "i", "n">>
OriginMain == OriginPrefix \o <<"m", "a", "i", "n">>
GerritDev == <<"g", "e", "r", "r", "i", "t", "/", "d", "e", "v">>
TagV1 == <<"t", "a", "g", ":", " ", "v", "1">>

\* the entries of a decoration, the empty one too
RefEntries == {HeadMain, OriginMain, GerritDev, TagV1, <<>>}

\* the entries as git joins them
RECURSIVE JoinRefs(_)
JoinRefs(entries) ==
    IF entries = <<>> THEN <<>>
    ELSE IF Len(entries) = 1 THEN entries[1]
    ELSE entries[1] \o <<",", " ">> \o JoinRefs(Tail(entries))

\* "* a1b2c3d " and " Fix bug - Alice"
ExamplePrefix == <<"*", " ", "a", "1", "b", "2", "c", "3", "d", " ">>
ExampleSuffix ==
    <<" ", "F", "i", "x", " ", "b", "u", "g", " ", "-", " ", "A", "l", "i", "c", "e">>

\* "* a1b2c3d (HEAD -> main, origin/main) Fix bug - Alice"
ExampleLine ==
    ExamplePrefix \o <<"(">> \o JoinRefs(<<HeadMain, OriginMain>>) \o <<")">>
        \o ExampleSuffix

\* lines with one group, with a date group before the decoration, and lines
\* without a group: no parenthesis, one of the two, ')' before '('
RefInputs ==
    {pre \o <<"(">> \o JoinRefs(es) \o <<")">> \o suf :
        es \in SeqsUpTo(RefEntries, MaxRefs),
        pre \in {<<>>, ExamplePrefix, ExamplePrefix \o <<"(", "d", ")", " ">>},
        suf \in {<<>>, ExampleSuffix}}
    \cup {ExamplePrefix, <<"(", "m">>, <<"m", ")">>, <<")", "(">>,
          <<":", ")", " ", "(", "m">>}

RefsInit ==
    /\ arg \in RefInputs
    /\ ret = NotRun
    /\ NoSession

ExtractRefs ==
    /\ ret = NotRun
    /\ ret' = Returned(extract_refs_from_line(arg))
    /\ UNCHANGED <<arg, appvars>>

RefsNext == ExtractRefs

SpecRefs == RefsInit /\ [][RefsNext]_vars

\* a "HEAD -> branch" pointer with no path separator
IsHeadPointer(entry) ==
    /\ starts_with(entry, <<"H", "E", "A", "D", " ", "-", ">", " ">>)
    /\ ~Contains(entry, "/")

\* C11 (as claimed): for "* a1b2c3d (HEAD -> main, origin/main) Fix bug -
\* Alice" the parser yields the prefix "* " and the id a1b2c3d and the
\* extracted entries hold origin/main and not "HEAD -> main"; no extracted
\* entry of any line is a HEAD pointer without a path separator.
C11_HeadPointerFilteredOut ==
    (ret # NotRun /\ ~ret[1].panic) =>
        /\ arg = ExampleLine =>
              /\ parse_gn_format_line(arg) =
                    Ok(GraphLine(<<"*", " ">>, SubSeq(arg, 3, Len(arg)),
                                 <<"a", "1", "b", "2", "c", "3", "d">>))
              /\ OriginMain \in Range(ret[1].value)
              /\ HeadMain \notin Range(ret[1].value)
        /\ \A k \in 1..Len(ret[1].value) : ~IsHeadPointer(ret[1].value[k])

\* the line has a parenthesized group: its first '(' comes before its last ')'
HasGroup(line) ==
    FindChar(line, "(") # 0 /\ FindChar(line, "(") < RFindChar(line, ")")

\* the trimmed comma-split entries of the text between the first '(' and the
\* last ')'
GroupEntries(line) ==
    LET parts == SplitOn(SubSeq(line, FindChar(line, "(") + 1,
                                RFindChar(line, ")") - 1), ",")
    IN  [k \in 1..Len(parts) |-> trim(parts[k])]

\* a is b with some of its elements left out
RECURSIVE IsSubSeq(_, _)
IsSubSeq(a, b) ==
    IF a = <<>> THEN TRUE
    ELSE IF b = <<>> THEN FALSE
    ELSE IF a[1] = b[1] THEN IsSubSeq(Tail(a), Tail(b))
    ELSE IsSubSeq(a, Tail(b))

\* C12: on a line with a parenthesized group extract_refs_from_line returns,
\* and its entries, trimmed, are a sub-sequence of the trimmed comma-split
\* entries of the group: nothing invented, the order kept.
C12_RefsAreSubSequenceOfGroup ==
    (ret # NotRun /\ HasGroup(arg)) =>
        /\ ~ret[1].panic
        /\ IsSubSeq([k \in 1..Len(ret[1].value) |-> trim(ret[1].value[k])],
                    GroupEntries(arg))

\* a group of three entries of which extract_refs_from_line kept two
C12_Witness ==
    /\ ret # NotRun
    /\ HasGroup(arg)
    /\ ~ret[1].panic
    /\ Len(GroupEntries(arg)) = 3
    /\ Len(ret[1].value) = 2
    /\ ret[1].value[1] # ret[1].value[2]

\* load_graph's loop over git_output.lines(), from line n on: blank lines are
\* skipped, every other line is parsed and pushed, and the first hex token of
\* the line that resolves puts its commit in the index.  A panic of the
\* parser ends the loop (and the process).
RECURSIVE ParseOutput(_, _, _, _)
ParseOutput(lines, n, commits_acc, graph_lines_acc) ==
    IF n > Len(lines)
    THEN [panic |-> FALSE, commits |-> commits_acc, graph_lines |-> graph_lines_acc]
    ELSE IF IsBlank(lines[n])
    THEN ParseOutput(lines, n + 1, commits_acc, graph_lines_acc)
    ELSE LET commit_info == parse_gn_format_line(lines[n])
             commit_short == FirstHexToken(split_whitespace(lines[n]))
             found == IF commit_short = <<>> THEN {} ELSE ResolveShortId(commit_short)
             refs == extract_refs_from_line(lines[n])
         IN  IF commit_info.panic \/ (found # {} /\ refs.panic)
             THEN [panic |-> TRUE, commits |-> commits_acc,
                   graph_lines |-> graph_lines_acc]
             ELSE ParseOutput(lines, n + 1,
                     IF found = {} THEN commits_acc
                     ELSE LET c == CHOOSE c \in found : TRUE
                          IN  MapInsert(commits_acc, CommitKey(c),
                                        GitCommit(c, commit_short, refs.value)),
                     Append(graph_lines_acc, commit_info.value))

-----------------------------------------------------------------------------
(* What the session's git processes answer *)

Row(c) == <<"*", " ">> \o ShortId(c) \o <<" ", "-", " ", "m">>

\* `git log --graph` of commit c and its ancestors, a connector row between
RECURSIVE History(_)
History(c) ==
    IF c = 0 THEN <<>>
    ELSE <<Row(c)>> \o (IF c > 1 THEN <<<<"|">>>> ELSE <<>>) \o History(c - 1)

\* a row whose abbreviated id resolves to no commit of the repository
UnknownRow == <<"*", " ", "b", "b", "b", "b", "b", "b", "b", " ", "m">>

\* rows of a repository whose ids are abbreviated to 4 digits (core.abbrev),
\* so that the scan goes on into the subject:
\*   "* cccc - Uber" with a 2-byte U, and
\*   "* cccc - EEE wip on  aaaaaa1 |*" with three 4-byte characters E
ShortAbbrev == <<"*", " ", "c", "c", "c", "c", " ", "-", " ">>
UmlautRow == ShortAbbrev \o <<"U2", "b", "e", "r">>
ShiftedRow ==
    ShortAbbrev \o <<"U4", "U4", "U4">>
        \o <<" ", "w", "i", "p", " ", "o", "n", " ", " ">>
        \o ShortId(1) \o <<" ", "|", "*">>

\* the row of commit 1 with its date and its decoration:
\*   "* aaaaaa1 - (d) m - n (HEAD -> main, origin/main)"
DecoratedRow ==
    <<"*", " ">> \o ShortId(1)
        \o <<" ", "-", " ", "(", "d", ")", " ", "m", " ", "-", " ", "n", " ", "(">>
        \o JoinRefs(<<HeadMain, OriginMain>>) \o <<")">>

GitLogOutputs ==
    {History(c) : c \in 0..NumCommits}
        \cup {<<Row(1), <<" ">>, UnknownRow>>, <<ShiftedRow>>, <<UmlautRow>>,
              <<DecoratedRow>>}

\* cmd.output(): the process cannot be started, exits non-zero, or prints
GitLogResults ==
    {[kind |-> k, lines |-> <<>>] : k \in {"spawn_error", "exit_nonzero"}}
        \cup {[kind |-> "ok", lines |-> out] : out \in GitLogOutputs}

\* `git for-each-ref --format=^%(refname:short) refs/remotes/gerrit/`: not
\* started (None), or its lines
GerritResults ==
    {None, Some(<<>>), Some(<<"^gerrit/dev", "^gerrit/sunmi-dev">>)}

\* gerrit_ref.contains("sunmi")
ContainsSunmi(gerrit_ref) == gerrit_ref \in {"^gerrit/sunmi-dev"}

\* `git show`: the number of lines of the text current_diff gets, be it the
\* patch or the error text
DiffLineCounts == {1, 21}

-----------------------------------------------------------------------------
(* App::load_graph *)

\* the exclusions passed with every filter
GitLogArgs_AlwaysExclude(filter, descendant_branches, gerrit) ==
    IF filter = None THEN <<"--all">>
    ELSE <<"^gerrit/dev", filter[1]>> \o descendant_branches

\* every fetch scoped to all references
GitLogArgs_AllRefs(filter, descendant_branches, gerrit) == <<"--all">>

\* the revision arguments load_graph appends to its `git log`
GitLogArgs(filter, descendant_branches, gerrit) ==
    IF filter = None THEN <<"--all">>
    ELSE (IF filter[1] # "master" /\ descendant_branches # <<>> /\ gerrit # None
          THEN SelectSeq(gerrit[1], LAMBDA gerrit_ref : ~ContainsSunmi(gerrit_ref))
          ELSE <<>>)
         \o <<filter[1]>> \o descendant_branches

\* load_graph's loop on each output git log can print (a table: the loop
\* depends on the output alone)
ParsedOutput == [out \in GitLogOutputs |-> ParseOutput(out, 1, EmptyMap, <<>>)]

\* a cache that is never hit
descendant_cache_get_Miss(cache, branch_name) == None

\* a load_graph that keeps what it computed to itself
CacheInsert_Dropped(cache, branch_name, descendants) == cache

\* self.descendant_cache.insert(branch_name.clone(), descendants.clone())
CacheInsert(cache, branch_name, descendants) ==
    MapInsert(cache, branch_name, descendants)

\* self.descendant_cache.get(branch_name)
descendant_cache_get(cache, branch_name) ==
    IF branch_name \in DOMAIN cache THEN Some(cache[branch_name]) ELSE None

\* load_graph on the fields it reads; the record holds the fields it writes
\* and what it did.  It never returns Err: is_ancestor_fast always is Ok.
load_graph(filter, cache, brs, bcc, failing, gerrit, log) ==
    LET cached == IF filter = None THEN None
                  ELSE descendant_cache_get(cache, filter[1])
        hit == cached # None
        descendant_branches ==
            IF filter = None THEN <<>>
            ELSE IF hit THEN cached[1]
            ELSE compute_descendants_fast(brs, bcc, filter[1], failing)
        parsed_out ==
            IF log.kind = "ok" THEN ParsedOutput[log.lines]
            ELSE [panic |-> FALSE, commits |-> EmptyMap, graph_lines |-> <<>>]
    IN  [descendant_cache |->
            IF filter = None \/ hit THEN cache
            ELSE CacheInsert(cache, filter[1], descendant_branches),
         cache_hit |-> hit,
         anc_calls |-> IF filter = None \/ hit THEN 0
                       ELSE AncestryCalls(brs, bcc, filter[1]),
         git_log_args |-> GitLogArgs(filter, descendant_branches, gerrit),
         git_log_result |-> log,
         commits |-> parsed_out.commits,
         graph_lines |-> parsed_out.graph_lines,
         panic |-> parsed_out.panic]

-----------------------------------------------------------------------------
(* A first filtered load_graph as a function of the branch list and of the  *)
(* ancestry checks that fail: SpecLoad                                      *)

LoadInit ==
    /\ arg \in {a \in DescInputs : a.base <= Len(a.branches)}
    /\ ret = NotRun
    /\ NoSession

\* set_branch_filter(Some(name)) on an empty descendant cache, up to the
\* return of load_graph
LoadFiltered ==
    /\ ret = NotRun
    /\ \E gerrit \in GerritResults :
        ret' = Returned(load_graph(Some(arg.branches[arg.base].name), EmptyMap,
                                   arg.branches, BranchCommitCache(arg.branches),
                                   arg.failing, gerrit,
                                   [kind |-> "ok", lines |-> History(1)]))
    /\ UNCHANGED <<arg, appvars>>

LoadNext == LoadFiltered

SpecLoad == LoadInit /\ [][LoadNext]_vars

\* the names of the candidates of the base of arg and what the load cached
LoadBase == arg.branches[arg.base].name
LoadCandidates ==
    Range(BranchNamesOf(Candidates(arg.branches, BranchCommitCache(arg.branches),
                                   LoadBase)))
LoadCached == ret[1].descendant_cache[LoadBase]

\* C14: load_graph returns (no error, no panic) and caches an entry for the
\* base; the entry is empty when the ancestry check fails for every
\* candidate, and in general it is the entry of a run without failures less
\* the candidates whose check failed.
C14_FailedChecksOnlyDropCandidates ==
    ret # NotRun =>
        /\ ~ret[1].panic
        /\ LoadBase \in DOMAIN ret[1].descendant_cache
        /\ LoadCandidates \subseteq arg.failing => LoadCached = <<>>
        /\ LoadCached =
              SelectSeq(compute_descendants_fast(arg.branches,
                            BranchCommitCache(arg.branches), LoadBase, {}),
                        LAMBDA name : name \notin arg.failing)

\* one candidate's check failed, that candidate would have been a descendant,
\* and another candidate is cached as one
C14_Witness ==
    /\ ret # NotRun
    /\ LoadCached # <<>>
    /\ \E name \in arg.failing \cap LoadCandidates :
          name \in Range(compute_descendants_fast(arg.branches,
                              BranchCommitCache(arg.branches), LoadBase, {}))

\* the answers of the processes a load_graph runs: the candidates whose
\* `git merge-base` fails and what `git for-each-ref` prints (a process that
\* is not run answers nothing)
AncestryFailures(filter, cache, brs, bcc) ==
    IF filter # None /\ descendant_cache_get(cache, filter[1]) = None
    THEN SUBSET Range(BranchNamesOf(Candidates(brs, bcc, filter[1])))
    ELSE {{}}

GerritAnswers(filter, cache, brs, bcc, failing) ==
    IF /\ filter # None
       /\ filter[1] # "master"
       /\ (IF descendant_cache_get(cache, filter[1]) # None
           THEN descendant_cache_get(cache, filter[1])[1]
           ELSE compute_descendants_fast(brs, bcc, filter[1], failing)) # <<>>
    THEN GerritResults
    ELSE {None}

\* every way a load_graph can go
GraphLoads(env, filter, cache, brs, bcc) ==
    UNION {{load_graph(filter, cache, brs, bcc, failing, gerrit, log) :
                gerrit \in GerritAnswers(filter, cache, brs, bcc, failing),
                log \in env.logs} :
           failing \in AncestryFailures(filter, cache, brs, bcc)}

\* the assignments of a handler that ran load_graph with result lg
LoadedGraph(lg) ==
    /\ descendant_cache' = lg.descendant_cache
    /\ cache_hit' = lg.cache_hit
    /\ anc_calls' = lg.anc_calls
    /\ git_log_args' = lg.git_log_args
    /\ git_log_result' = lg.git_log_result
    /\ commits' = lg.commits
    /\ graph_lines' = lg.graph_lines
    /\ status' = IF lg.panic THEN "panicked" ELSE status

\* a handler that runs no git process
NoProcess ==
    /\ cache_hit' = FALSE
    /\ anc_calls' = 0
    /\ git_log_args' = <<>>
    /\ git_log_result' = NoFetch

-----------------------------------------------------------------------------
(* App::new *)

\* the repository's branches as load_branches reads them, in the session's
\* specification: dev moves, appears and disappears; master stays at the
\* first commit and so does the remote branch, when there is one; no local
\* branch is named like a remote one
RepoStates ==
    {r \in AllRepoStates : r.local[2] = 1 /\ r.local[3] = 0 /\ r.remote[1] <= 1}

\* the branch lists a complete load_branches can build
BranchLists == {AllBranches(r) : r \in RepoStates}

\* App::new in an environment env: load_branches, then load_graph
Init(env) ==
    /\ arg = <<>>
    /\ ret = NotRun
    /\ \E brs \in env.lists, log \in env.logs :
        LET lg == load_graph(None, EmptyMap, brs, BranchCommitCache(brs), {}, None, log)
        IN  /\ branches = brs
            /\ branch_commit_cache = BranchCommitCache(brs)
            /\ descendant_cache = lg.descendant_cache
            /\ commits = lg.commits
            /\ graph_lines = lg.graph_lines
            /\ status = IF lg.panic THEN "panicked" ELSE "running"
            /\ cache_hit = FALSE
            /\ anc_calls = 0
            /\ git_log_args = lg.git_log_args
            /\ git_log_result = lg.git_log_result
    /\ selected_branch = 0
    /\ selected_commit = 0
    /\ show_logs = FALSE
    /\ current_branch_filter = None
    /\ loading = FALSE
    /\ error_message = None
    /\ scroll_offset = 0
    /\ current_diff = None
    /\ show_diff = FALSE
    /\ diff_scroll_offset = 0
    /\ reloaded = TRUE

-----------------------------------------------------------------------------
(* The handlers.  run_app draws, then handles one event; draw_diff_overlay  *)
(* clamps diff_scroll_offset when the diff is shown.                        *)

\* crossterm::terminal::size().unwrap_or((80, 24)).1, the frame's height too
TerminalHeight == 24

BorderRows == 2

\* terminal_height * 9 / 10, and area.height * 9 / 10 in draw_diff_overlay
PopupHeight == (TerminalHeight * 9) \div 10

\* u16::saturating_sub, usize::saturating_sub
saturating_sub(a, b) == IF a >= b THEN a - b ELSE 0

Min(a, b) == IF a <= b THEN a ELSE b

\* every line of the diff counted as scrollable, whatever the height
get_max_diff_scroll_AllLines(diff, visible_height) ==
    IF diff # None THEN diff[1] ELSE 0

\* App::get_max_diff_scroll(visible_height) for the diff held
get_max_diff_scroll(diff, visible_height) ==
    IF diff # None
    THEN saturating_sub(diff[1], saturating_sub(visible_height, BorderRows))
    ELSE 0

\* diff_scroll_offset after draw_ui: clamp_diff_scroll runs when show_diff
Drawn ==
    IF show_diff
    THEN Min(diff_scroll_offset, get_max_diff_scroll(current_diff, PopupHeight))
    ELSE diff_scroll_offset

Running == status = "running"

selection == <<selected_branch, selected_commit>>
diffvars == <<current_diff, show_diff, diff_scroll_offset>>
branchvars == <<branches, branch_commit_cache>>
graphvars == <<commits, graph_lines>>
flags == <<loading, error_message>>

\* App::set_branch_filter(branch_name)
set_branch_filter(env, branch_name) ==
    \E lg \in GraphLoads(env, branch_name, descendant_cache, branches,
                         branch_commit_cache) :
        /\ current_branch_filter' = branch_name
        /\ LoadedGraph(lg)
        /\ loading' = lg.panic
        /\ error_message' = None
        /\ selected_commit' = IF lg.panic THEN selected_commit ELSE 0
        /\ reloaded' = FALSE
        /\ UNCHANGED <<branchvars, selected_branch, show_logs, scroll_offset,
                       diffvars, pvars>>

\* q or Esc with no diff shown: handle_events returns true, run_app breaks
KeyQuit ==
    /\ Running /\ ~show_diff
    /\ status' = "quit"
    /\ NoProcess
    /\ reloaded' = FALSE
    /\ UNCHANGED <<branches, commits, graph_lines, selection, show_logs,
                   current_branch_filter, flags, scroll_offset, diffvars,
                   descendant_cache, branch_commit_cache, pvars>>

\* the assignments of a handler that touches neither the lists nor the caches
Browsing ==
    /\ NoProcess
    /\ reloaded' = FALSE
    /\ UNCHANGED <<branchvars, graphvars, current_branch_filter, flags,
                   descendant_cache, status, pvars>>

\* Up or k: previous_commit / previous_branch
KeyUp ==
    /\ Running /\ ~show_diff
    /\ IF show_logs
       THEN /\ selected_commit' =
                IF graph_lines = <<>> THEN selected_commit
                ELSE IF selected_commit = 0 THEN Len(graph_lines) - 1
                ELSE selected_commit - 1
            /\ UNCHANGED selected_branch
       ELSE /\ selected_branch' =
                IF branches = <<>> THEN selected_branch
                ELSE IF selected_branch = 0 THEN Len(branches) - 1
                ELSE selected_branch - 1
            /\ UNCHANGED selected_commit
    /\ scroll_offset' = 0
    /\ Browsing
    /\ UNCHANGED <<show_logs, diffvars>>

\* Down or j: next_commit / next_branch
KeyDown ==
    /\ Running /\ ~show_diff
    /\ IF show_logs
       THEN /\ selected_commit' =
                IF graph_lines = <<>> THEN selected_commit
                ELSE (selected_commit + 1) % Len(graph_lines)
            /\ UNCHANGED selected_branch
       ELSE /\ selected_branch' =
                IF branches = <<>> THEN selected_branch
                ELSE (selected_branch + 1) % Len(branches)
            /\ UNCHANGED selected_commit
    /\ scroll_offset' = 0
    /\ Browsing
    /\ UNCHANGED <<show_logs, diffvars>>

\* Left or h, Right or l, Tab
KeyPanel ==
    /\ Running /\ ~show_diff
    /\ \E key \in {"Left", "Right", "Tab"} :
        show_logs' = CASE key = "Left" -> FALSE
                       [] key = "Right" -> TRUE
                       [] key = "Tab" -> ~show_logs
    /\ Browsing
    /\ UNCHANGED <<selection, scroll_offset, diffvars>>

\* the largest scroll_offset followed; the u16 overflows past 65535
MaxScrollOffset == 5

ScrollStep == 5

\* PageUp, PageDown with no diff shown
KeyPage ==
    /\ Running /\ ~show_diff
    /\ \/ scroll_offset' = IF scroll_offset > ScrollStep
                            THEN scroll_offset - ScrollStep ELSE 0
       \/ /\ scroll_offset + ScrollStep <= MaxScrollOffset
          /\ scroll_offset' = scroll_offset + ScrollStep
    /\ Browsing
    /\ UNCHANGED <<selection, show_logs, diffvars>>

\* any other key with no diff shown
KeyOther ==
    /\ Running /\ ~show_diff
    /\ Browsing
    /\ UNCHANGED <<selection, show_logs, scroll_offset, diffvars>>

\* App::get_included_branches: the names it returns, and whether its lookup
\* in the descendant cache missed
get_included_branches(filter, cache) ==
    IF filter # None
    THEN LET descendants == descendant_cache_get(cache, filter[1])
         IN  [included |-> <<filter[1]>>
                              \o (IF descendants # None THEN descendants[1] ELSE <<>>),
              miss |-> descendants = None]
    ELSE [included |-> <<>>, miss |-> FALSE]

\* App::get_selected_commit: the commits it can return (HashMap::values
\* iterates in no fixed order and find takes the first match), None when
\* there is none
get_selected_commit(lines, selected, index) ==
    IF selected < Len(lines)
    THEN LET line == lines[selected + 1]
             by_id ==
                IF line.commit_id # <<>>
                THEN {k \in DOMAIN index :
                        \/ index[k].short_id = line.commit_id
                        \/ starts_with(index[k].id, line.commit_id)
                        \/ index[k].id = line.commit_id}
                ELSE {}
             parts == split_whitespace(line.commit_text)
             by_text ==
                IF parts # <<>> /\ IsHexToken(parts[1])
                THEN {k \in DOMAIN index :
                        \/ index[k].short_id = parts[1]
                        \/ starts_with(index[k].id, parts[1])}
                ELSE {}
         IN  IF by_id # {} THEN {Some(index[k]) : k \in by_id}
             ELSE IF by_text # {} THEN {Some(index[k]) : k \in by_text}
             ELSE {None}
    ELSE {None}

\* Enter in the branches panel taking the first branch, not the selected one
KeyEnterBranch_FirstBranch(env) ==
    /\ Running /\ ~show_diff /\ ~show_logs
    /\ IF selected_branch < Len(branches)
       THEN set_branch_filter(env, Some(branches[1].name))
       ELSE /\ NoProcess
            /\ reloaded' = FALSE
            /\ UNCHANGED <<branchvars, graphvars, selection, show_logs,
                           current_branch_filter, flags, scroll_offset,
                           diffvars, descendant_cache, status, pvars>>

\* Enter in the branches panel: select_current_branch
KeyEnterBranch(env) ==
    /\ Running /\ ~show_diff /\ ~show_logs
    /\ IF selected_branch < Len(branches)
       THEN set_branch_filter(env, Some(branches[selected_branch + 1].name))
       ELSE /\ NoProcess
            /\ reloaded' = FALSE
            /\ UNCHANGED <<branchvars, graphvars, selection, show_logs,
                           current_branch_filter, flags, scroll_offset,
                           diffvars, descendant_cache, status, pvars>>

\* c or C: clear_branch_filter
KeyClear(env) ==
    /\ Running /\ ~show_diff
    /\ set_branch_filter(env, None)

\* Enter in the graph panel: load_commit_diff
KeyEnterGraph(env) ==
    /\ Running /\ ~show_diff /\ show_logs
    /\ IF \/ graph_lines = <<>>
          \/ selected_commit >= Len(graph_lines)
          \/ graph_lines[selected_commit + 1].commit_id = <<>>
       THEN UNCHANGED diffvars
       ELSE \E n \in env.diffs :
            /\ current_diff' = Some(n)
            /\ show_diff' = TRUE
            /\ diff_scroll_offset' = 0
    /\ Browsing
    /\ UNCHANGED <<selection, show_logs, scroll_offset>>

\* refresh_data whose failed load_branches also empties the graph and the index
KeyRefresh_FailureClearsGraph(env) ==
    /\ Running /\ ~show_diff
    /\ \E all \in env.lists :
        \/ \E lg \in GraphLoads(env, current_branch_filter, descendant_cache,
                                 all, BranchCommitCache(all)) :
            /\ branches' = all
            /\ branch_commit_cache' = BranchCommitCache(all)
            /\ LoadedGraph(lg)
            /\ error_message' = None
            /\ loading' = lg.panic
        \/ \E k \in 0..Len(all) :
            LET brs == SubSeq(all, 1, k)
            IN  /\ branches' = brs
                /\ branch_commit_cache' = BranchCommitCache(brs)
                /\ error_message' = Some("Failed to load branches")
                /\ loading' = FALSE
                /\ NoProcess
                /\ commits' = EmptyMap
                /\ graph_lines' = <<>>
                /\ UNCHANGED <<descendant_cache, status>>
    /\ reloaded' = TRUE
    /\ UNCHANGED <<selection, show_logs, current_branch_filter,
                   scroll_offset, diffvars, pvars>>

\* r or R: refresh_data.  load_branches clears the list and branch_commit_cache
\* and pushes the branches it reads; an error of the repository (a `?`) leaves
\* the first k pushed and skips load_graph.
KeyRefresh(env) ==
    /\ Running /\ ~show_diff
    /\ \E all \in env.lists :
        \/ \E lg \in GraphLoads(env, current_branch_filter, descendant_cache,
                                 all, BranchCommitCache(all)) :
            /\ branches' = all
            /\ branch_commit_cache' = BranchCommitCache(all)
            /\ LoadedGraph(lg)
            /\ error_message' = None
            /\ loading' = lg.panic
        \/ \E k \in 0..Len(all) :
            LET brs == SubSeq(all, 1, k)
            IN  /\ branches' = brs
                /\ branch_commit_cache' = BranchCommitCache(brs)
                /\ error_message' = Some("Failed to load branches")
                /\ loading' = FALSE
                /\ NoProcess
                /\ UNCHANGED <<graphvars, descendant_cache, status>>
    /\ reloaded' = TRUE
    /\ UNCHANGED <<selection, show_logs, current_branch_filter,
                   scroll_offset, diffvars, pvars>>

\* a key in the diff view that also puts the commit selection back to the top
InDiff_ResetsSelection ==
    /\ NoProcess
    /\ reloaded' = FALSE
    /\ selected_commit' = 0
    /\ UNCHANGED <<branchvars, graphvars, selected_branch, show_logs,
                   current_branch_filter, flags, scroll_offset,
                   descendant_cache, status, pvars>>

\* the assignments of a key handled while the diff is shown
InDiff ==
    /\ NoProcess
    /\ reloaded' = FALSE
    /\ UNCHANGED <<branchvars, graphvars, selection, show_logs,
                   current_branch_filter, flags, scroll_offset,
                   descendant_cache, status, pvars>>

\* close_diff without the reset of diff_scroll_offset
KeyCloseDiff_KeepsOffset ==
    /\ Running /\ show_diff
    /\ show_diff' = FALSE
    /\ current_diff' = None
    /\ diff_scroll_offset' = Drawn
    /\ NoProcess
    /\ reloaded' = FALSE
    /\ UNCHANGED <<branchvars, graphvars, selection, show_logs,
                   current_branch_filter, flags, scroll_offset,
                   descendant_cache, status, pvars>>

\* q or Esc while the diff is shown: close_diff
KeyCloseDiff ==
    /\ Running /\ show_diff
    /\ show_diff' = FALSE
    /\ current_diff' = None
    /\ diff_scroll_offset' = 0
    /\ InDiff

DiffPage == 10

\* Up, k, Down, j, PageUp, PageDown and the other keys while the diff is shown
KeyDiffScroll ==
    /\ Running /\ show_diff
    /\ LET max_scroll == get_max_diff_scroll(current_diff, PopupHeight) IN
       \E key \in {"Up", "Down", "PageUp", "PageDown", "Other"} :
        diff_scroll_offset' =
            CASE key = "Up" -> IF Drawn > 0 THEN Drawn - 1 ELSE Drawn
              [] key = "Down" -> IF Drawn < max_scroll THEN Drawn + 1 ELSE Drawn
              [] key = "PageUp" -> IF Drawn >= DiffPage THEN Drawn - DiffPage ELSE 0
              [] key = "PageDown" -> Min(Drawn + DiffPage, max_scroll)
              [] key = "Other" -> Drawn
    /\ UNCHANGED <<current_diff, show_diff>>
    /\ InDiff

\* The branch engine: every state of the repository's branches, a git log
\* that prints a one-commit history or fails, a one-line diff.
BranchEnv ==
    [lists |-> BranchLists,
     logs |-> {[kind |-> "exit_nonzero", lines |-> <<>>],
               [kind |-> "ok", lines |-> History(1)]},
     diffs |-> {1}]

\* one turn of run_app's loop
Next ==
    \/ KeyQuit
    \/ KeyUp
    \/ KeyDown
    \/ KeyPanel
    \/ KeyPage
    \/ KeyEnterBranch(BranchEnv)
    \/ KeyEnterGraph(BranchEnv)
    \/ KeyClear(BranchEnv)
    \/ KeyRefresh(BranchEnv)
    \/ KeyOther
    \/ KeyCloseDiff
    \/ KeyDiffScroll

Spec == Init(BranchEnv) /\ [][Next]_vars

\* The diff view: one branch, a git log that prints a one-commit history or
\* fails, a one-line diff and one longer than two pages.
MaxDiffLines == 41

DiffEnv ==
    [lists |-> {<<GitBranch("master", 1, FALSE)>>},
     logs |-> {[kind |-> "exit_nonzero", lines |-> <<>>],
               [kind |-> "ok", lines |-> History(1)]},
     diffs |-> {1, MaxDiffLines}]

NextDiff ==
    \/ KeyQuit
    \/ KeyUp
    \/ KeyDown
    \/ KeyPanel
    \/ KeyPage
    \/ KeyEnterBranch(DiffEnv)
    \/ KeyEnterGraph(DiffEnv)
    \/ KeyClear(DiffEnv)
    \/ KeyRefresh(DiffEnv)
    \/ KeyOther
    \/ KeyCloseDiff
    \/ KeyDiffScroll

SpecDiff == Init(DiffEnv) /\ [][NextDiff]_vars

\* The graph view: two states of the branches, every answer of git log and
\* git show.
GraphEnv ==
    [lists |-> {<<GitBranch("dev", NumCommits, FALSE), GitBranch("master", 1, FALSE)>>,
                <<GitBranch("master", 1, FALSE)>>},
     logs |-> GitLogResults,
     diffs |-> DiffLineCounts]

NextGraph ==
    \/ KeyQuit
    \/ KeyUp
    \/ KeyDown
    \/ KeyPanel
    \/ KeyPage
    \/ KeyEnterBranch(GraphEnv)
    \/ KeyEnterGraph(GraphEnv)
    \/ KeyClear(GraphEnv)
    \/ KeyRefresh(GraphEnv)
    \/ KeyOther
    \/ KeyCloseDiff
    \/ KeyDiffScroll

SpecGraph == Init(GraphEnv) /\ [][NextGraph]_vars


-----------------------------------------------------------------------------
(* The parser's claims, under SpecParse *)

parsed == ret[1].value

IsAscii(s) == \A j \in 1..Len(s) : len_utf8(s[j]) = 1

IsHashChar(c) == is_ascii_hexdigit(c) \/ c = "*"

\* the length of the run of hex digits and markers that starts at s[n]
RECURSIVE RunLen(_, _)
RunLen(s, n) ==
    IF n > Len(s) \/ ~IsHashChar(s[n]) THEN 0 ELSE 1 + RunLen(s, n + 1)

\* a commit-start candidate as the specification words it: a run of 7 or
\* more, followed by a space or by the end of the line
IsCandidate(s, n) ==
    /\ RunLen(s, n) >= MinHashLen
    /\ \/ n + RunLen(s, n) > Len(s)
       \/ s[n + RunLen(s, n)] = " "

\* the first candidate of s, 0 when it has none
FirstCandidate(s) ==
    IF \E n \in 1..Len(s) : IsCandidate(s, n)
    THEN CHOOSE n \in 1..Len(s) :
            IsCandidate(s, n) /\ \A m \in 1..(n - 1) : ~IsCandidate(s, m)
    ELSE 0

\* C6 (as claimed): whenever the parser returns, graph_text followed by
\* commit_text is the input line.  The code indexes bytes with a char count,
\* so a non-ASCII char before the commit start breaks it.
C6_PrefixPlusPayloadIsLine ==
    (ret # NotRun /\ ~ret[1].panic) =>
        parsed.graph_text \o parsed.commit_text = arg

\* C7 (as claimed): an ASCII line is split at its first candidate, a run at
\* the end of the line included, and a run of hex digits is the short id.
C7_SplitsAtFirstCandidate ==
    (ret # NotRun /\ IsAscii(arg)) =>
        LET n == FirstCandidate(arg) IN
        IF n = 0 THEN parsed.commit_text = <<>>
        ELSE /\ parsed.graph_text = SubSeq(arg, 1, n - 1)
             /\ parsed.commit_text = SubSeq(arg, n, Len(arg))

C9_NoCandidateIsAllPrefix ==
    (ret # NotRun /\ FirstCandidate(arg) = 0) =>
        /\ ~ret[1].panic
        /\ parsed.graph_text = arg
        /\ parsed.commit_text = <<>>
        /\ parsed.commit_id = <<>>

-----------------------------------------------------------------------------
(* The descendant cache over a session: Spec *)

BranchNames == {branches[i].name : i \in 1..Len(branches)}

\* C1 (as claimed): a step that reloads the branch list leaves no entry
\* computed before it in the descendant cache: the load_graph of the reload
\* does not hit the cache, and the only entry the cache can hold afterwards
\* is the one that load_graph has just computed for the current filter.
C1_ReloadClearsDescendantCache ==
    [][reloaded' =>
          /\ ~cache_hit'
          /\ \A k \in DOMAIN descendant_cache' : current_branch_filter' = Some(k)]_vars

\* the last Len(tail) arguments of git log are tail
EndsWith(args, tail) ==
    /\ Len(tail) <= Len(args)
    /\ SubSeq(args, Len(args) - Len(tail) + 1, Len(args)) = tail

\* C2: a step other than a reload that runs a filtered load_graph for a base
\* branch whose descendant set is cached runs no ancestry check, leaves the
\* cache as it is and passes git log the base and the cached set.
C2_CachedSetIsReused ==
    [][(/\ ~reloaded'
        /\ git_log_args' # <<>>
        /\ current_branch_filter' # None
        /\ current_branch_filter'[1] \in DOMAIN descendant_cache) =>
          /\ anc_calls' = 0
          /\ descendant_cache' = descendant_cache
          /\ EndsWith(git_log_args', <<current_branch_filter'[1]>>
                            \o descendant_cache[current_branch_filter'[1]])]_vars

\* a filtered load_graph has reused a cached, non-empty descendant set
C2_Witness ==
    /\ ~reloaded
    /\ cache_hit
    /\ anc_calls = 0
    /\ current_branch_filter # None
    /\ descendant_cache[current_branch_filter[1]] # <<>>
    /\ EndsWith(git_log_args, descendant_cache[current_branch_filter[1]])

\* C4 (as claimed): for local branches A and B of the branch list, A's tip a
\* strict ancestor of B's tip, the cache entry of base B does not contain A.
C4_NoDescendantBehindItsBase ==
    \A i, j \in 1..Len(branches) :
        LET A == branches[i]
            B == branches[j]
        IN  (/\ ~A.is_remote /\ ~B.is_remote
             /\ IsAncestor(A.commit_id, B.commit_id)
             /\ A.commit_id # B.commit_id
             /\ B.name \in DOMAIN descendant_cache)
                => A.name \notin Range(descendant_cache[B.name])

\* C5 (as claimed): after a reload that read the whole branch list, every
\* key of the descendant cache and every member of a cached set names a
\* branch of the reloaded list.
C5_NoEntryForRemovedBranch ==
    (reloaded /\ error_message = None) =>
        \A k \in DOMAIN descendant_cache :
            /\ k \in BranchNames
            /\ Range(descendant_cache[k]) \subseteq BranchNames

-----------------------------------------------------------------------------
(* The selected graph line: SpecGraph *)

\* the selected graph line exists and its commit_id is empty
SelectedIdEmpty ==
    /\ selected_commit < Len(graph_lines)
    /\ graph_lines[selected_commit + 1].commit_id = <<>>

\* C10 (as claimed): a selected graph line whose commit_id is empty resolves
\* to no commit, and no key pressed on it with the graph panel active (Enter
\* among them) opens a diff.
C10_EmptyIdNeverResolves ==
    /\ [](SelectedIdEmpty =>
            get_selected_commit(graph_lines, selected_commit, commits) = {None})
    /\ [][(status = "running" /\ show_logs /\ ~show_diff /\ SelectedIdEmpty)
            => UNCHANGED <<show_diff, current_diff>>]_vars

\* C13 (as claimed): the refs_text of a graph line whose payload has a
\* parenthesized group is the payload from its first '(' to its last ')', and
\* the refs_text of a graph line is empty only when its payload has no group.
C13_RefsTextIsTheGroup ==
    \A k \in 1..Len(graph_lines) :
        LET payload == graph_lines[k].commit_text
        IN  /\ HasGroup(payload) =>
                  graph_lines[k].refs_text =
                      SubSeq(payload, FindChar(payload, "("), RFindChar(payload, ")"))
            /\ graph_lines[k].refs_text = <<>> => ~HasGroup(payload)

-----------------------------------------------------------------------------
(* The graph fetch over a session: Spec and SpecGraph *)

\* C15: with a branch filter B active the descendant cache has a key for B,
\* so that get_included_branches does not take its miss path and returns B
\* followed by the cached set.
C15_ActiveFilterIsCached ==
    (status = "running" /\ current_branch_filter # None) =>
        /\ current_branch_filter[1] \in DOMAIN descendant_cache
        /\ ~get_included_branches(current_branch_filter, descendant_cache).miss
        /\ get_included_branches(current_branch_filter, descendant_cache).included
              = <<current_branch_filter[1]>>
                    \o descendant_cache[current_branch_filter[1]]

\* a filter is active on a branch whose cached descendant set is empty
C15_Witness ==
    /\ status = "running"
    /\ current_branch_filter # None
    /\ current_branch_filter[1] \in DOMAIN descendant_cache
    /\ descendant_cache[current_branch_filter[1]] = <<>>
    /\ git_log_result.kind = "ok"

\* the arguments that exclude a gerrit reference
IsExclusion(a) == a \in {"^gerrit/dev", "^gerrit/sunmi-dev"}

\* C16: git log gets an exclusion argument only when a filter is active, the
\* filter is not master and its descendant set is not empty.
C16_ExclusionOnlyForNonPrimaryWithDescendants ==
    (\E k \in 1..Len(git_log_args) : IsExclusion(git_log_args[k])) =>
        /\ current_branch_filter # None
        /\ current_branch_filter[1] # "master"
        /\ current_branch_filter[1] \in DOMAIN descendant_cache
        /\ descendant_cache[current_branch_filter[1]] # <<>>

\* a fetch got an exclusion argument
C16_Witness ==
    /\ git_log_result.kind = "ok"
    /\ current_branch_filter # None
    /\ git_log_args[1] = "^gerrit/dev"
    /\ "^gerrit/sunmi-dev" \notin Range(git_log_args)

\* C17: a fetch is scoped to --all exactly when no filter is active; with a
\* filter B its arguments are exclusions, then B, then the members of B's
\* descendant set, and never --all.
C17_ScopedToFilterAndDescendants ==
    git_log_result # NoFetch =>
        IF current_branch_filter = None
        THEN git_log_args = <<"--all">>
        ELSE LET B == current_branch_filter[1]
                 scope == <<B>> \o descendant_cache[B]
             IN  /\ "--all" \notin Range(git_log_args)
                 /\ EndsWith(git_log_args, scope)
                 /\ \A k \in 1..(Len(git_log_args) - Len(scope)) :
                        IsExclusion(git_log_args[k])

\* a fetch was scoped to a filter and its one descendant
C17_Witness ==
    /\ git_log_result.kind = "ok"
    /\ current_branch_filter # None
    /\ Len(descendant_cache[current_branch_filter[1]]) = 1
    /\ git_log_args = <<current_branch_filter[1]>>
                          \o descendant_cache[current_branch_filter[1]]

\* the git log of the last step could not be started or exited non-zero
FetchFailed == git_log_result.kind \in {"spawn_error", "exit_nonzero"}

\* C18 (as claimed): after a graph fetch that could not be started or exited
\* non-zero the session runs on, the graph line list and the commit index
\* are empty, and an error message is stored.
C18_FailedFetchIsReported ==
    FetchFailed =>
        /\ status = "running"
        /\ graph_lines = <<>>
        /\ commits = EmptyMap
        /\ error_message # None

\* C19 (as claimed): a step that ran a branch selection, a clearing of the
\* filter or a refresh ends with loading false and the session running.
C19_OperationsEndNotLoadingAndRunning ==
    [][(git_log_result' # NoFetch \/ reloaded') =>
            (loading' = FALSE /\ status' = "running")]_vars

\* the non-blank lines of a git log output
NonBlank(lines) == SelectSeq(lines, LAMBDA l : ~IsBlank(l))

\* C20: after a load_graph that returned, the graph line list has one row
\* per non-blank line of that fetch's output, in order and made of that
\* line's text, every commit of the index is filed under its own full id and
\* is named by a token of that output, and both are empty when the fetch
\* failed.
C20_LoadReplacesIndexAndLines ==
    (git_log_result # NoFetch /\ status = "running") =>
        LET out == NonBlank(git_log_result.lines)
        IN  /\ Len(graph_lines) = Len(out)
            /\ \A k \in 1..Len(out) :
                  graph_lines[k] = parse_gn_format_line(out[k]).value
            /\ \A key \in DOMAIN commits :
                  /\ commits[key].id = key
                  /\ \E k \in 1..Len(out) :
                        commits[key].short_id \in Range(split_whitespace(out[k]))
            /\ FetchFailed => (graph_lines = <<>> /\ commits = EmptyMap)

\* a fetch of two commits follows a fetch of another output
C20_Witness ==
    /\ status = "running"
    /\ git_log_result.kind = "ok"
    /\ Cardinality(DOMAIN commits) = 2
    /\ Len(graph_lines) = 3
    /\ ~reloaded
    /\ current_branch_filter # None

-----------------------------------------------------------------------------
(* Rows without a commit: SpecGraph *)

\* the selected graph line has a short id that resolves to no commit
SelectedIdUnresolved ==
    /\ selected_commit < Len(graph_lines)
    /\ graph_lines[selected_commit + 1].commit_id # <<>>
    /\ ResolveShortId(graph_lines[selected_commit + 1].commit_id) = {}

\* C21 (as claimed): a selected graph line whose short id resolves to no
\* commit gives no commit detail, and no key pressed on it with the graph
\* panel active (Enter among them) opens the diff view.
C21_UnresolvedRowHasNoDetailNorDiff ==
    /\ [](SelectedIdUnresolved =>
            get_selected_commit(graph_lines, selected_commit, commits) = {None})
    /\ [][(status = "running" /\ show_logs /\ ~show_diff /\ SelectedIdUnresolved)
            => UNCHANGED <<show_diff, current_diff>>]_vars

-----------------------------------------------------------------------------
(* The colorizer: colorize_graph_text, colorize_commit_text, colorize_refs  *)

\* Span::styled(content, Style::default().fg(fg)), with
\* add_modifier(Modifier::BOLD) for bold; Span::raw(content) sets no colour
Span(content, fg, bold) == [content |-> content, fg |-> fg, bold |-> bold]

\* the match on ch in colorize_graph_text
GraphColor(ch) ==
    CASE ch = "*" -> "Red"
      [] ch = "|" -> "Green"
      [] ch = "/" -> "Blue"
      [] ch = "\\" -> "Cyan"
      [] ch = "_" -> "Yellow"
      [] ch = "-" -> "Yellow"
      [] ch = "+" -> "Magenta"
      [] OTHER -> "White"

\* the loop of colorize_graph_text from the n-th char on, and the push of the
\* last span after it
RECURSIVE GraphSpansFrom(_, _, _, _, _)
GraphSpansFrom(graph_text, n, spans, current_span, current_color) ==
    IF n > Len(graph_text)
    THEN IF current_span # <<>>
         THEN Append(spans, Span(current_span, current_color, FALSE))
         ELSE spans
    ELSE LET ch == graph_text[n]
             new_color == GraphColor(ch)
             flush == new_color # current_color /\ current_span # <<>>
         IN  GraphSpansFrom(graph_text, n + 1,
                 IF flush
                 THEN Append(spans, Span(current_span, current_color, FALSE))
                 ELSE spans,
                 Append(IF flush THEN <<>> ELSE current_span, ch),
                 new_color)

\* one span per char, runs not merged
colorize_graph_text_PerChar(graph_text) ==
    [k \in 1..Len(graph_text) |->
        Span(<<graph_text[k]>>, GraphColor(graph_text[k]), FALSE)]

colorize_graph_text(graph_text) ==
    GraphSpansFrom(graph_text, 1, <<>>, <<>>, "White")

\* str::contains(&str)
contains_str(s, sub) ==
    \E k \in 1..(Len(s) - Len(sub) + 1) : SubSeq(s, k, k + Len(sub) - 1) = sub

\* str::ends_with
ends_with(s, suffix) ==
    Len(suffix) <= Len(s) /\ SubSeq(s, Len(s) - Len(suffix) + 1, Len(s)) = suffix

\* str::trim_start_matches(c), str::trim_end_matches(c)
RECURSIVE trim_start_matches(_, _)
trim_start_matches(s, c) ==
    IF s # <<>> /\ s[1] = c THEN trim_start_matches(Tail(s), c) ELSE s

RECURSIVE trim_end_matches(_, _)
trim_end_matches(s, c) ==
    IF s # <<>> /\ s[Len(s)] = c
    THEN trim_end_matches(SubSeq(s, 1, Len(s) - 1), c)
    ELSE s

\* the tag marker tested before the remote ones
colorize_refs_TagFirst(refs_text) ==
    LET inner == trim_end_matches(trim_start_matches(refs_text, "("), ")")
        color ==
            IF contains_str(inner, <<"H", "E", "A", "D">>) THEN "Cyan"
            ELSE IF contains_str(inner, <<"t", "a", "g", ":">>) THEN "Yellow"
            ELSE IF \/ contains_str(inner, OriginPrefix)
                    \/ contains_str(inner, <<"r", "e", "m", "o", "t", "e", "/">>)
                 THEN "Red"
            ELSE "Green"
    IN  Span(refs_text, color, TRUE)

colorize_refs(refs_text) ==
    LET inner == trim_end_matches(trim_start_matches(refs_text, "("), ")")
        color ==
            IF contains_str(inner, <<"H", "E", "A", "D">>) THEN "Cyan"
            ELSE IF \/ contains_str(inner, OriginPrefix)
                    \/ contains_str(inner, <<"r", "e", "m", "o", "t", "e", "/">>)
                 THEN "Red"
            ELSE IF contains_str(inner, <<"t", "a", "g", ":">>) THEN "Yellow"
            ELSE "Green"
    IN  Span(refs_text, color, TRUE)

\* the loop of colorize_commit_text from parts[i] on (i counts from 0)
RECURSIVE CommitSpansFrom(_, _, _, _, _)
CommitSpansFrom(parts, i, spans, in_refs, ref_content) ==
    IF i >= Len(parts) THEN spans
    ELSE LET part == parts[i + 1]
             spaced == IF i > 0
                       THEN Append(spans, Span(<<" ">>, "None", FALSE))
                       ELSE spans
             grown == ref_content \o <<" ">> \o part
         IN  IF i = 0 /\ IsHexToken(part)
             THEN CommitSpansFrom(parts, i + 1,
                      Append(spaced, Span(part, "Yellow", FALSE)),
                      in_refs, ref_content)
             ELSE IF starts_with(part, <<"(">>)
             THEN IF ends_with(part, <<")">>)
                  THEN CommitSpansFrom(parts, i + 1,
                           Append(spaced, colorize_refs(part)), FALSE, <<>>)
                  ELSE CommitSpansFrom(parts, i + 1, spaced, TRUE, part)
             ELSE IF in_refs
             THEN IF ends_with(part, <<")">>)
                  THEN CommitSpansFrom(parts, i + 1,
                           Append(spaced, colorize_refs(grown)), FALSE, <<>>)
                  ELSE CommitSpansFrom(parts, i + 1, spaced, TRUE, grown)
             ELSE CommitSpansFrom(parts, i + 1,
                      Append(spaced, Span(part, "White", FALSE)),
                      in_refs, ref_content)

colorize_commit_text(commit_text) ==
    CommitSpansFrom(split_whitespace(commit_text), 0, <<>>, FALSE, <<>>)

-----------------------------------------------------------------------------
(* The colorizer on graph prefixes, commit texts and reference groups:      *)
(* SpecColor                                                                 *)

MaxGraphText == 3

\* graph prefixes of the drawing chars; commit texts of up to three words, a
\* short id, message words, and the pieces of reference groups among them;
\* reference groups of up to MaxRefs entries
ColorTexts ==
    LET words == {<<>>, ShortId(1), <<"f", "i", "x">>, <<"b", "u", "g">>,
                  <<"(", "H", "E", "A", "D">>, <<"-", ">">>,
                  <<"m", "a", "i", "n", ")">>,
                  <<"(">> \o OriginMain \o <<")">>}
        entries == RefEntries \cup {<<"r", "e", "m", "o", "t", "e", "/", "x">>}
    IN  SeqsUpTo({"*", "|", "/", "\\", "_", "-", "+", " ", "x"}, MaxGraphText)
        \cup {w1 \o <<" ">> \o w2 \o <<" ">> \o w3 :
                w1 \in words, w2 \in words, w3 \in words}
        \cup {<<"(">> \o JoinRefs(es) \o <<")">> :
                es \in SeqsUpTo(entries, MaxRefs)}

ColorInit ==
    /\ arg \in ColorTexts
    /\ ret = NotRun
    /\ NoSession

ColorizeGraphText ==
    /\ ret = NotRun
    /\ ret' = Returned([fn |-> "colorize_graph_text",
                        spans |-> colorize_graph_text(arg)])
    /\ UNCHANGED <<arg, appvars>>

ColorizeCommitText ==
    /\ ret = NotRun
    /\ ret' = Returned([fn |-> "colorize_commit_text",
                        spans |-> colorize_commit_text(arg)])
    /\ UNCHANGED <<arg, appvars>>

ColorizeRefs ==
    /\ ret = NotRun
    /\ ret' = Returned([fn |-> "colorize_refs",
                        spans |-> <<colorize_refs(arg)>>])
    /\ UNCHANGED <<arg, appvars>>

ColorNext ==
    \/ ColorizeGraphText
    \/ ColorizeCommitText
    \/ ColorizeRefs

SpecColor == ColorInit /\ [][ColorNext]_vars

\* the function fn has returned spans
Colorized(fn) == ret # NotRun /\ ret[1].fn = fn

\* the texts of the spans, one after the other
RECURSIVE ConcatContent(_)
ConcatContent(spans) ==
    IF spans = <<>> THEN <<>>
    ELSE spans[1].content \o ConcatContent(Tail(spans))

\* C22: the spans of colorize_graph_text are the maximal runs of one colour:
\* no two adjacent spans have the same colour, no span is empty, and the span
\* texts one after the other are the input.
C22_GraphSpansAreMergedRuns ==
    Colorized("colorize_graph_text") =>
        LET spans == ret[1].spans
        IN  /\ \A k \in 1..(Len(spans) - 1) : spans[k].fg # spans[k + 1].fg
            /\ \A k \in 1..Len(spans) : spans[k].content # <<>>
            /\ ConcatContent(spans) = arg

\* a text with a run of two chars of one colour before a char of another
C22_Witness ==
    /\ Colorized("colorize_graph_text")
    /\ Len(arg) = 3
    /\ GraphColor(arg[1]) = GraphColor(arg[2])
    /\ GraphColor(arg[2]) # GraphColor(arg[3])
    /\ Len(ret[1].spans) = 2

\* a span of the message class, and the span put between two parts
IsMessageSpan(span) == span = Span(span.content, "White", FALSE)
IsSeparator(span) == span = Span(<<" ">>, "None", FALSE)

\* C23 (as claimed): colorize_commit_text merges contiguous tokens of one
\* class: no two adjacent spans have the same style, and consecutive message
\* words are one span, never a message span per word with a separator
\* between them.
C23_MessageWordsAreOneSpan ==
    Colorized("colorize_commit_text") =>
        LET spans == ret[1].spans
        IN  /\ \A k \in 1..(Len(spans) - 1) :
                  <<spans[k].fg, spans[k].bold>>
                      # <<spans[k + 1].fg, spans[k + 1].bold>>
            /\ \A k \in 1..(Len(spans) - 2) :
                  ~(/\ IsMessageSpan(spans[k])
                    /\ IsSeparator(spans[k + 1])
                    /\ IsMessageSpan(spans[k + 2]))

\* the class a colour stands for
RefClass(span) ==
    CASE span.fg = "Cyan" -> "head"
      [] span.fg = "Red" -> "remote"
      [] span.fg = "Yellow" -> "tag"
      [] span.fg = "Green" -> "local-branch"
      [] OTHER -> "none"

HasMarker(group, marker) ==
    \E k \in 1..Len(group) : starts_with(SubSeq(group, k, Len(group)), marker)

\* C24: a reference group is head when it holds the HEAD marker; else remote
\* when it holds "origin/" or "remote/"; else tag when it holds "tag:"; else
\* local-branch: every group gets exactly one of the four classes.
C24_RefClassByPriority ==
    Colorized("colorize_refs") =>
        LET span == ret[1].spans[1]
            head == HasMarker(arg, <<"H", "E", "A", "D">>)
            remote == \/ HasMarker(arg, <<"o", "r", "i", "g", "i", "n", "/">>)
                      \/ HasMarker(arg, <<"r", "e", "m", "o", "t", "e", "/">>)
            tag == HasMarker(arg, <<"t", "a", "g", ":">>)
        IN  /\ RefClass(span) \in {"head", "remote", "tag", "local-branch"}
            /\ RefClass(span) = "head" <=> head
            /\ RefClass(span) = "remote" <=> (~head /\ remote)
            /\ RefClass(span) = "tag" <=> (~head /\ ~remote /\ tag)
            /\ RefClass(span) = "local-branch" <=> (~head /\ ~remote /\ ~tag)
            /\ span.content = arg

\* a group with a tag and a remote branch and no HEAD: remote wins
C24_Witness ==
    /\ Colorized("colorize_refs")
    /\ starts_with(arg, <<"(">>) /\ ends_with(arg, <<")">>)
    /\ HasMarker(arg, <<"t", "a", "g", ":">>)
    /\ HasMarker(arg, <<"o", "r", "i", "g", "i", "n", "/">>)
    /\ ~HasMarker(arg, <<"H", "E", "A", "D">>)
    /\ RefClass(ret[1].spans[1]) = "remote"

-----------------------------------------------------------------------------
(* The selections stay inside their lists *)

\* C25 (as claimed): in a running session, whenever graph_lines is non-empty
\* the selected commit index is below the number of graph lines, after any
\* keys: navigation, branch selection, clearing the filter, refreshes whose
\* graph output changed.
C25_SelectedCommitInRange ==
    (status = "running" /\ graph_lines # <<>>) =>
        selected_commit < Len(graph_lines)

\* a step of next_branch or previous_branch: a key that moved the branch
\* selection and nothing else of the panel
BranchStep ==
    /\ ~show_logs /\ ~show_diff /\ status = "running"
    /\ selected_branch' # selected_branch
    /\ UNCHANGED <<branches, show_logs>>

\* C26 (as claimed): in a running session, whenever branches is non-empty the
\* selected branch index is below the number of branches, also after
\* refreshes that shrink the list, and every next_branch / previous_branch
\* step ends with the index in range.
C26_SelectedBranchInRange ==
    /\ []((status = "running" /\ branches # <<>>) =>
            selected_branch < Len(branches))
    /\ [][BranchStep => selected_branch' < Len(branches')]_vars

-----------------------------------------------------------------------------
(* The diff view *)

\* C27: while the diff is shown, a key leaves the filter, show_logs, both
\* selections, branches, graph_lines, commits and the descendant cache as
\* they were; of the fields of App only show_diff, current_diff and
\* diff_scroll_offset can change.
C27_DiffKeysTouchOnlyTheDiff ==
    [][(status = "running" /\ show_diff) =>
          UNCHANGED <<current_branch_filter, show_logs, selected_branch,
                      selected_commit, branches, graph_lines, commits,
                      descendant_cache, branch_commit_cache, loading,
                      error_message, scroll_offset>>]_vars

\* a diff scrolled down, opened on a commit below the first row
C27_Witness ==
    /\ show_diff
    /\ diff_scroll_offset > 0
    /\ selected_commit > 0

\* the fields of App but the three of the diff view
NotDiffFields ==
    <<branches, commits, graph_lines, selected_branch, selected_commit,
      show_logs, current_branch_filter, loading, error_message, scroll_offset,
      descendant_cache, branch_commit_cache>>

\* C28 (as claimed): the session ends only by q or Esc pressed while no diff
\* is shown, a step that changes nothing else; pressed while the diff is shown
\* the key closes the diff and the session goes on, so that q pressed twice in
\* a row ends the session from every state; no other key ends the session.
C28_OnlyQuitKeyEndsTheSession ==
    /\ [][(status = "running" /\ status' # "running") =>
            (~show_diff /\ status' = "quit"
                /\ UNCHANGED <<NotDiffFields, diffvars>>)]_vars
    /\ [][KeyCloseDiff => (status' = "running" /\ ~show_diff')]_vars
    /\ [][KeyQuit => status' = "quit"]_vars
    /\ [](status = "running" =>
            IF show_diff THEN ENABLED KeyCloseDiff ELSE ENABLED KeyQuit)

\* C29: show_diff is true exactly when current_diff is present, and whenever
\* show_diff is false diff_scroll_offset is 0.
C29_DiffFlagMatchesContent ==
    /\ show_diff <=> current_diff # None
    /\ ~show_diff => diff_scroll_offset = 0

\* a diff of more than a page, shown and scrolled to its last page
C29_Witness ==
    /\ show_diff
    /\ current_diff # None
    /\ diff_scroll_offset = 2

\* the claimed limit: the diff's lines minus (popup height - 2), not below 0
ClaimedMaxScroll ==
    IF current_diff = None THEN 0
    ELSE saturating_sub(current_diff[1], PopupHeight - 2)

\* C30: at a fixed terminal height diff_scroll_offset stays in 0..max_scroll,
\* max_scroll being the diff's lines minus (popup height - 2) floored at 0,
\* after any scroll keys in the diff view, and a diff just opened is at 0.
C30_DiffScrollInRange ==
    /\ [](diff_scroll_offset \in 0..ClaimedMaxScroll)
    /\ [][(~show_diff /\ show_diff') => diff_scroll_offset' = 0]_vars

\* the end of a diff longer than a page, reached by scrolling
C30_Witness ==
    /\ show_diff
    /\ ClaimedMaxScroll > DiffPage
    /\ diff_scroll_offset = ClaimedMaxScroll

-----------------------------------------------------------------------------
(* The filter and the failed refresh *)

\* C31: the branch filter changes only by Enter in the branches panel, to the
\* name of the selected branch, or by c, to none; a refresh, a move of a
\* selection by navigation, a switch of the panel and every key pressed while
\* the diff is shown leave it as it was.
C31_FilterChangesOnlyByEnterOrClear ==
    /\ [][current_branch_filter' # current_branch_filter =>
            /\ status = "running" /\ ~show_diff
            /\ \/ current_branch_filter' = None
               \/ /\ ~show_logs
                  /\ selected_branch < Len(branches)
                  /\ current_branch_filter' =
                        Some(branches[selected_branch + 1].name)]_vars
    /\ [][(reloaded' \/ show_diff \/ show_logs' # show_logs
              \/ selected_branch' # selected_branch)
            => UNCHANGED current_branch_filter]_vars

\* the filter set by Enter on a branch below the first
C31_Witness ==
    /\ ~show_logs
    /\ selected_branch > 0
    /\ selected_branch < Len(branches)
    /\ current_branch_filter = Some(branches[selected_branch + 1].name)
    /\ ~reloaded

\* a refresh whose load_branches failed: refresh_data ran no load_graph
BranchReloadFailed == reloaded' /\ git_log_result' = NoFetch

\* C32: a refresh whose branch reload fails does not reload the graph:
\* graph_lines, commits and the descendant cache stay exactly as they were,
\* the error message is stored, loading is false, and refresh_data returns
\* Ok, so the session goes on.
C32_FailedBranchReloadKeepsGraph ==
    [][BranchReloadFailed =>
          /\ UNCHANGED <<graph_lines, commits, descendant_cache>>
          /\ error_message' # None
          /\ loading' = FALSE
          /\ status' = "running"]_vars

\* after a failed branch reload, with a graph and a cached descendant set kept
C32_Witness ==
    /\ reloaded
    /\ git_log_result = NoFetch
    /\ error_message # None
    /\ graph_lines # <<>>
    /\ descendant_cache # EmptyMap

-----------------------------------------------------------------------------
(* The short id of a parsed line: SpecParse *)

\* C33 (as claimed): the short id parse_gn_format_line extracts is empty or
\* has at least 7 chars, every one a hexadecimal digit.
C33_ShortIdIsEmptyOrHex ==
    (ret # NotRun /\ ~ret[1].panic) =>
        LET id == ret[1].value.commit_id
        IN  \/ id = <<>>
            \/ /\ Len(id) >= 7
               /\ \A j \in 1..Len(id) : id[j] \in HexDigits

-----------------------------------------------------------------------------
(* The tokens of a commit payload: SpecColor *)

\* the tokens with one space between them
RECURSIVE JoinTokens(_)
JoinTokens(tokens) ==
    IF tokens = <<>> THEN <<>>
    ELSE IF Len(tokens) = 1 THEN tokens[1]
    ELSE tokens[1] \o <<" ">> \o JoinTokens(Tail(tokens))

\* C34 (as claimed): colorize_commit_text loses no token: its span texts one
\* after the other are the payload's whitespace-separated tokens joined by
\* single spaces, also when a token opens a reference group never closed.
C34_CommitSpansKeepEveryToken ==
    Colorized("colorize_commit_text") =>
        ConcatContent(ret[1].spans) = JoinTokens(split_whitespace(arg))

=============================================================================
